---- MODULE Spec2Model ----
(***************************************************************************)
(* Model of src/index.js: an Express front-end over the Met Museum         *)
(* collection API.  One request is followed from its arrival to its        *)
(* response.  Every `await` of a handler is a suspension point, so every   *)
(* handler is cut into one action per continuation; the promises of a      *)
(* Promise.all fan-out advance independently, in any order.                *)
(***************************************************************************)
EXTENDS Integers, Sequences, FiniteSets, TLC

VARIABLES
    route,        \* which handler serves the request: "none", "home", "search", "images", "results"
    pc,           \* position of the handler: "idle", "awaitList", "fanout", "awaitObject", "awaitAll", "done"
    page,         \* `page` of /search and /results (after parseInt(...) || 1)
    listResult,   \* the list / search call: "none", "pending", "resolved", "rejected"
    data,         \* response.data of the list / search / object call
    objectIDs,    \* /search: the page slice (line 88)
    promises,     \* the per-element async callbacks of the Promise.all fan-out
    response,     \* what was written to `res`
    nResponses,   \* number of res.render / res.send / res.json calls
    listCalls,    \* number of list / search calls issued to the collection API
    fetchCalls,   \* sequence of object ids whose detail was requested
    translateCalls \* number of translate(...) calls issued

vars == <<route, pc, page, listResult, data, objectIDs, promises, response, nResponses,
          listCalls, fetchCalls, translateCalls>>

----------------------------------------------------------------------------
(* Bounds of the explored inputs. *)

MaxIds == 3          \* longest upstream id list of Spec
MaxPageIds == 44     \* longest upstream id list of SpecPage is MaxPageIds + 1
MaxDepts == 3        \* longest upstream department list
MaxNegPage == 2      \* numeric page parameters range over -MaxNegPage .. MaxPage
MaxPage == 3
MaxImages == 2       \* longest additionalImages array

----------------------------------------------------------------------------
(* Upstream data.  "" stands for a field that is absent or empty (falsy). *)

Titles == <<"Vase", "Mask", "", "Sword">>
Cultures == <<"Greek", "", "", "Japanese">>
Dynasties == <<"", "Ming", "", "Edo">>
PrimaryImages == <<"img-a", "", "img-c", "img-d">>

Shape(id) == (id % Len(Titles)) + 1

\* The record the collection API serves for /objects/{id}.
ObjOf(id) ==
    [objectID |-> id,
     title |-> Titles[Shape(id)],
     culture |-> Cultures[Shape(id)],
     dynasty |-> Dynasties[Shape(id)],
     primaryImage |-> PrimaryImages[Shape(id)]]

DeptNames == <<"Egyptian Art", "Arms and Armor", "Asian Art">>

DeptOf(i) ==
    [departmentId |-> i, displayName |-> DeptNames[((i - 1) % Len(DeptNames)) + 1]]

Injective(s) == \A i, j \in 1..Len(s) : i # j => s[i] # s[j]

\* objectIDs of a search response: ids without repetition, in any order.
IdLists == {s \in UNION {[1..k -> 1..MaxIds] : k \in 0..MaxIds} : Injective(s)}
LongIdLists == {[i \in 1..n |-> i] : n \in 0..(MaxPageIds + 1)}
DeptLists == {[i \in 1..n |-> DeptOf(i)] : n \in 0..MaxDepts} \cup
             {[i \in 1..n |-> DeptOf(n + 1 - i)] : n \in 2..MaxDepts}
ImageLists == {[i \in 1..n |-> "extra-img"] : n \in 0..MaxImages}

\* The `page` query parameter as it arrives.
PageParams ==
    {[kind |-> "absent", n |-> 0], [kind |-> "text", n |-> 0]} \cup
    {[kind |-> "int", n |-> k] : k \in (0 - MaxNegPage)..MaxPage}

----------------------------------------------------------------------------
(* Library functions, as the code uses them. *)

\* translate({text, source: 'en', target: 'es'}) resolved: .translation
Es(text) == "es:" \o text

\* parseInt(req.query.page) || 1  -- NaN and 0 are falsy
ParsePage(q) == IF q.kind = "int" /\ q.n # 0 THEN q.n ELSE 1

limit == 20
itemsPerPage == 10

Offset(p) == (p - 1) * limit

Max(a, b) == IF a > b THEN a ELSE b
Min(a, b) == IF a < b THEN a ELSE b

\* Array.prototype.slice(start, end): a negative bound counts from the end.
JsSlice(s, start, end) ==
    LET len == Len(s)
        from == IF start < 0 THEN Max(len + start, 0) ELSE Min(start, len)
        to == IF end < 0 THEN Max(len + end, 0) ELSE Min(end, len)
    IN  IF to <= from THEN <<>> ELSE SubSeq(s, from + 1, to)

\* Math.ceil(totalObjects / limit), totalObjects >= 0
TotalPages(totalObjects) == (totalObjects + limit - 1) \div limit

\* response.data.total || 0
TotalOf(d) == IF d.hasTotal THEN d.total ELSE 0

----------------------------------------------------------------------------
(* Responses *)

NoResponse ==
    [status |-> 0, kind |-> "none", view |-> "", items |-> <<>>,
     currentPage |-> 0, totalPages |-> 0, message |-> ""]

Render(view, items, cur, total, msg) ==
    [status |-> 200, kind |-> "render", view |-> view, items |-> items,
     currentPage |-> cur, totalPages |-> total, message |-> msg]

Json(items) ==
    [status |-> 200, kind |-> "json", view |-> "", items |-> items,
     currentPage |-> 0, totalPages |-> 0, message |-> ""]

\* As SendError, without the status.
SendWithoutStatus(text) ==
    [status |-> 200, kind |-> "send", view |-> "", items |-> <<>>,
     currentPage |-> 0, totalPages |-> 0, message |-> text]

\* res.status(500).send(text)
SendError(text) ==
    [status |-> 500, kind |-> "send", view |-> "", items |-> <<>>,
     currentPage |-> 0, totalPages |-> 0, message |-> text]

----------------------------------------------------------------------------
(* State *)

NoObject == [objectID |-> 0, title |-> "", culture |-> "", dynasty |-> "", primaryImage |-> ""]
NoData == [kind |-> "none", objectIDs |-> <<>>, total |-> 0, hasTotal |-> FALSE]

Init ==
    /\ route = "none"
    /\ pc = "idle"
    /\ page = 0
    /\ listResult = "none"
    /\ data = NoData
    /\ objectIDs = <<>>
    /\ promises = <<>>
    /\ response = NoResponse
    /\ nResponses = 0
    /\ listCalls = 0
    /\ fetchCalls = <<>>
    /\ translateCalls = 0

\* res.render / res.send / res.json ends the handler.
Respond(r) ==
    /\ response' = r
    /\ nResponses' = nResponses + 1
    /\ pc' = "done"

----------------------------------------------------------------------------
(* GET /search, lines 51-132 *)

\* What the search call can answer with.
SearchShapes ==
    {[kind |-> k, objectIDs |-> <<>>, total |-> 0, hasTotal |-> FALSE] :
        k \in {"nodata", "missing", "notArray"}} \cup
    {[kind |-> k, objectIDs |-> <<>>, total |-> t, hasTotal |-> TRUE] :
        k \in {"missing", "notArray"}, t \in {0, MaxIds}}
ArrayData(ids, total, has) ==
    [kind |-> "array", objectIDs |-> ids, total |-> IF has THEN total ELSE 0, hasTotal |-> has]
SearchData ==
    SearchShapes \cup {ArrayData(ids, Len(ids), h) : ids \in IdLists, h \in BOOLEAN}
LongSearchData ==
    UNION {{ArrayData(ids, t, h) : t \in {Len(ids), MaxPageIds + 1}, h \in BOOLEAN} :
              ids \in LongIdLists}

\* As HasNoIds, without the length test.
HasNoIdsIgnoresLength(d) == d.kind # "array"

\* line 76: !response.data || !Array.isArray(response.data.objectIDs) || length === 0
HasNoIds(d) == d.kind # "array" \/ Len(d.objectIDs) = 0

\* lines 51-74: the handler up to `await axios.get(url)`.  The filters only
\* shape the url and are echoed to the template.
SearchRequest(q) ==
    /\ pc = "idle"
    /\ route' = "search"
    /\ page' = ParsePage(q)
    /\ listCalls' = listCalls + 1
    /\ pc' = "awaitList"
    /\ listResult' = "pending"
    /\ UNCHANGED <<data, objectIDs, promises, response, nResponses, fetchCalls, translateCalls>>

\* lines 128-131: the search call rejected.
SearchFailed ==
    /\ route = "search" /\ pc = "awaitList"
    /\ listResult' = "rejected"
    /\ Respond(SendError("Error al recuperar los objetos de arte"))
    /\ UNCHANGED <<route, page, data, objectIDs, promises, listCalls, fetchCalls, translateCalls>>

\* The callback of line 89 as it starts for one id: it runs up to the await of line 91.
StartFetch(id) ==
    [id |-> id, pc |-> "fetch", obj |-> NoObject, value |-> "pending",
     fetch |-> "pending", failed |-> {}]

\* lines 76-89: the search call resolved.  Either the empty page is rendered,
\* or the slice is cut and every callback of the map issues its object fetch.
SearchResponded(d) ==
    /\ route = "search" /\ pc = "awaitList"
    /\ listResult' = "resolved"
    /\ data' = d
    /\ IF HasNoIds(d)
       THEN /\ Respond(Render("results", <<>>, page, 0,
                              "No se encontraron resultados para los filtros aplicados."))
            /\ UNCHANGED <<objectIDs, promises, fetchCalls>>
       ELSE LET ids == JsSlice(d.objectIDs, Offset(page), Offset(page) + limit)
            IN  /\ objectIDs' = ids
                /\ promises' = [i \in 1..Len(ids) |-> StartFetch(ids[i])]
                /\ fetchCalls' = fetchCalls \o ids
                /\ pc' = "awaitAll"
                /\ UNCHANGED <<response, nResponses>>
    /\ UNCHANGED <<route, page, listCalls, translateCalls>>

FieldOrder == <<"title", "culture", "dynasty">>

\* lines 95, 99, 103: the first field after position k that is truthy, or 0.
NextAwait(obj, k) ==
    IF \E j \in (k + 1)..Len(FieldOrder) : obj[FieldOrder[j]] # ""
    THEN CHOOSE j \in (k + 1)..Len(FieldOrder) :
            /\ obj[FieldOrder[j]] # ""
            /\ \A h \in (k + 1)..(j - 1) : obj[FieldOrder[h]] = ""
    ELSE 0

FieldIndex(f) == CHOOSE j \in 1..Len(FieldOrder) : FieldOrder[j] = f

\* The callback runs on from position k to its next await, or returns obj (line 108).
RunOn(p, k) ==
    LET j == NextAwait(p.obj, k)
    IN  IF j = 0 THEN [p EXCEPT !.pc = "settled", !.value = "obj"]
        ELSE [p EXCEPT !.pc = FieldOrder[j]]

\* As SearchCatch, rethrowing what is not a 404, as the callback of /results does.
SearchCatchRethrowsFatal(cause) == IF cause = "error" THEN "rejected" ELSE "null"

\* As SearchCatch, rethrowing a 404.
SearchCatchRethrowsNotFound(cause) == IF cause = "notFound" THEN "rejected" ELSE "null"

\* lines 109-112: whatever was thrown in the try block, the callback returns null.
SearchCatch(cause) == "null"

Caught(p, cause) == [p EXCEPT !.pc = "settled", !.value = SearchCatch(cause)]

Calls(p) == IF p.pc \in {"title", "culture", "dynasty"} THEN 1 ELSE 0

\* lines 91-92 and the catch: the object fetch of promise i settled.
ObjectFetched(i, outcome) ==
    /\ route = "search" /\ pc = "awaitAll"
    /\ i \in 1..Len(promises)
    /\ promises[i].pc = "fetch"
    /\ LET p == [promises[i] EXCEPT !.fetch = outcome]
           q == IF outcome = "ok"
                THEN RunOn([p EXCEPT !.obj = ObjOf(p.id)], 0)
                ELSE Caught(p, outcome)
       IN  /\ promises' = [promises EXCEPT ![i] = q]
           /\ translateCalls' = translateCalls + Calls(q)
    /\ UNCHANGED <<listResult, route, pc, page, data, objectIDs, response, nResponses, listCalls, fetchCalls>>

\* lines 96-97, 100-101, 104-105 and the catch: a translate call of promise i settled.
Translated(i, outcome) ==
    /\ route = "search" /\ pc = "awaitAll"
    /\ i \in 1..Len(promises)
    /\ promises[i].pc \in {"title", "culture", "dynasty"}
    /\ LET p == promises[i]
           f == p.pc
           q == IF outcome = "ok"
                THEN RunOn([p EXCEPT !.obj[f] = Es(p.obj[f])], FieldIndex(f))
                ELSE Caught([p EXCEPT !.failed = p.failed \cup {f}], "translate")
       IN  /\ promises' = [promises EXCEPT ![i] = q]
           /\ translateCalls' = translateCalls + Calls(q)
    /\ UNCHANGED <<listResult, route, pc, page, data, objectIDs, response, nResponses, listCalls, fetchCalls>>

\* As PromiseAll, the values in the opposite order.
PromiseAllReversed(ps) ==
    [i \in 1..Len(ps) |-> [isNull |-> ps[Len(ps) + 1 - i].value # "obj",
                           obj |-> ps[Len(ps) + 1 - i].obj]]

\* Promise.all: the values in the order of the promises, whatever the order of settling.
PromiseAll(ps) == [i \in 1..Len(ps) |-> [isNull |-> ps[i].value # "obj", obj |-> ps[i].obj]]

\* line 115: obj !== null && obj.primaryImage
Displayable(v) == ~v.isNull /\ v.obj.primaryImage # ""

Objects(ps) ==
    LET kept == SelectSeq(PromiseAll(ps), Displayable)
    IN  [i \in 1..Len(kept) |-> kept[i].obj]

\* lines 115-131: Promise.all settled.  It rejects with the first rejection and
\* the outer catch answers 500; it resolves once every promise has resolved.
SearchJoin ==
    /\ route = "search" /\ pc = "awaitAll"
    /\ IF \E i \in 1..Len(promises) : promises[i].value = "rejected"
       THEN Respond(SendError("Error al recuperar los objetos de arte"))
       ELSE /\ \A i \in 1..Len(promises) : promises[i].pc = "settled"
            /\ Respond(Render("results", Objects(promises), page,
                              TotalPages(TotalOf(data)), ""))
    /\ UNCHANGED <<listResult, route, page, data, objectIDs, promises, listCalls, fetchCalls, translateCalls>>

----------------------------------------------------------------------------
(* GET /, lines 18-48 *)

\* What the departments call can answer with: a list, or a body without one.
DeptData ==
    {[kind |-> "departments", departments |-> ds] : ds \in DeptLists} \cup
    {[kind |-> "noDepartments", departments |-> <<>>]}

\* lines 19-21: the handler up to `await axios.get(.../departments)`.
HomeRequest ==
    /\ pc = "idle"
    /\ route' = "home"
    /\ listCalls' = listCalls + 1
    /\ pc' = "awaitList"
    /\ listResult' = "pending"
    /\ UNCHANGED <<page, data, objectIDs, promises, response, nResponses, fetchCalls, translateCalls>>

\* lines 44-47: the departments call rejected.
HomeFailed ==
    /\ route = "home" /\ pc = "awaitList"
    /\ listResult' = "rejected"
    /\ Respond(SendError("Error al cargar departamentos."))
    /\ UNCHANGED <<route, page, data, objectIDs, promises, listCalls, fetchCalls, translateCalls>>

\* lines 28-31: the callback's result when translate resolved.
TranslatedDepartment(department) ==
    [departmentId |-> department.departmentId, displayName |-> Es(department.displayName)]

\* As OriginalDepartment, losing the name.
OriginalDepartmentBlank(department) ==
    [departmentId |-> department.departmentId, displayName |-> ""]

\* lines 32-39: the callback's result when translate threw.
OriginalDepartment(department) ==
    [departmentId |-> department.departmentId, displayName |-> department.displayName]

\* lines 22-27: the departments call resolved; every callback of the map issues
\* its translate call.  `departments.map` of a body without a list throws a
\* TypeError, which the outer catch answers.
HomeResponded(d) ==
    /\ route = "home" /\ pc = "awaitList"
    /\ listResult' = "resolved"
    /\ data' = d
    /\ IF d.kind = "departments"
       THEN /\ promises' = [i \in 1..Len(d.departments) |->
                               [department |-> d.departments[i], pc |-> "translate",
                                result |-> d.departments[i], failed |-> FALSE]]
            /\ translateCalls' = translateCalls + Len(d.departments)
            /\ pc' = "awaitAll"
            /\ UNCHANGED <<response, nResponses>>
       ELSE /\ Respond(SendError("Error al cargar departamentos."))
            /\ UNCHANGED <<promises, translateCalls>>
    /\ UNCHANGED <<route, page, objectIDs, listCalls, fetchCalls>>

\* lines 27-39: the translate call of department i settled.
DepartmentTranslated(i, outcome) ==
    /\ route = "home" /\ pc = "awaitAll"
    /\ i \in 1..Len(promises)
    /\ promises[i].pc = "translate"
    /\ LET p == promises[i]
       IN  promises' = [promises EXCEPT ![i] =
               [p EXCEPT !.pc = "settled",
                         !.failed = (outcome # "ok"),
                         !.result = IF outcome = "ok"
                                    THEN TranslatedDepartment(p.department)
                                    ELSE OriginalDepartment(p.department)]]
    /\ UNCHANGED <<listResult, route, pc, page, data, objectIDs, response, nResponses,
                   listCalls, fetchCalls, translateCalls>>

\* lines 25, 40-43: Promise.all resolved, in the order of the departments.
HomeJoin ==
    /\ route = "home" /\ pc = "awaitAll"
    /\ \A i \in 1..Len(promises) : promises[i].pc = "settled"
    /\ Respond(Render("index", [i \in 1..Len(promises) |-> promises[i].result], 0, 0, ""))
    /\ UNCHANGED <<listResult, route, page, data, objectIDs, promises, listCalls, fetchCalls, translateCalls>>

----------------------------------------------------------------------------
(* GET /object/:id/additional-images, lines 135-150 *)

\* The object served: additionalImages absent, or an array.
ImageObjects ==
    {[kind |-> "object", hasImages |-> FALSE, additionalImages |-> <<>>]} \cup
    {[kind |-> "object", hasImages |-> TRUE, additionalImages |-> imgs] : imgs \in ImageLists}

\* lines 137-138
ImagesRequest(id) ==
    /\ pc = "idle"
    /\ route' = "images"
    /\ fetchCalls' = Append(fetchCalls, id)
    /\ pc' = "awaitObject"
    /\ UNCHANGED <<listResult, page, data, objectIDs, promises, response, nResponses, listCalls, translateCalls>>

\* lines 146-149
ImagesFailed ==
    /\ route = "images" /\ pc = "awaitObject"
    /\ Respond(SendError("Error al recuperar las imagenes adicionales."))
    /\ UNCHANGED <<listResult, route, page, data, objectIDs, promises, listCalls, fetchCalls, translateCalls>>

\* As AdditionalImagesBody, with `length > 1`.
AdditionalImagesBodyOffByOne(object) ==
    IF object.hasImages /\ Len(object.additionalImages) > 1
    THEN object.additionalImages
    ELSE <<>>

\* lines 141-145
AdditionalImagesBody(object) ==
    IF object.hasImages /\ Len(object.additionalImages) > 0
    THEN object.additionalImages
    ELSE <<>>

\* lines 139-145
ImagesFetched(object) ==
    /\ route = "images" /\ pc = "awaitObject"
    /\ data' = object
    /\ Respond(Json(AdditionalImagesBody(object)))
    /\ UNCHANGED <<listResult, route, page, objectIDs, promises, listCalls, fetchCalls, translateCalls>>

----------------------------------------------------------------------------
(* GET /results, lines 153-198 *)

\* line 159: getAllObjectsFromAPI is neither declared nor imported anywhere in
\* the module, so evaluating the call throws a ReferenceError inside the try
\* block, before anything is awaited; lines 161-193 are never reached.
GetAllObjectsFromAPI == "ReferenceError"

\* lines 154-159 and 194-197
ResultsRequest(q) ==
    /\ pc = "idle"
    /\ route' = "results"
    /\ page' = ParsePage(q)
    /\ GetAllObjectsFromAPI = "ReferenceError"
    /\ Respond(SendError("Error al obtener resultados"))
    /\ UNCHANGED <<listResult, data, objectIDs, promises, listCalls, fetchCalls, translateCalls>>

----------------------------------------------------------------------------
(* Specifications *)

\* axios.get of an object: resolved, rejected with status 404, or rejected with
\* anything else (network error, other status).
FetchOutcomes == {"ok", "notFound", "error"}
\* translate(...): resolved with a translation, or thrown at the await (a
\* rejection, or a value whose .translation cannot be read).
TranslateOutcomes == {"ok", "fail"}

Next ==
    \/ \E q \in PageParams : SearchRequest(q)
    \/ SearchFailed
    \/ \E d \in SearchData : SearchResponded(d)
    \/ \E i \in 1..MaxIds, o \in FetchOutcomes : ObjectFetched(i, o)
    \/ \E i \in 1..MaxIds, o \in TranslateOutcomes : Translated(i, o)
    \/ SearchJoin
    \/ HomeRequest
    \/ HomeFailed
    \/ \E d \in DeptData : HomeResponded(d)
    \/ \E i \in 1..MaxDepts, o \in TranslateOutcomes : DepartmentTranslated(i, o)
    \/ HomeJoin
    \/ \E id \in 1..MaxIds : ImagesRequest(id)
    \/ ImagesFailed
    \/ \E o \in ImageObjects : ImagesFetched(o)
    \/ \E q \in PageParams : ResultsRequest(q)

Spec == Init /\ [][Next]_vars

\* The first promise that has not settled, or 0.
FirstPending ==
    IF \E i \in 1..Len(promises) : promises[i].pc # "settled"
    THEN CHOOSE i \in 1..Len(promises) :
            /\ promises[i].pc # "settled"
            /\ \A j \in 1..(i - 1) : promises[j].pc = "settled"
    ELSE 0

\* /search over long id lists, every upstream call succeeding, the promises
\* settling one after the other.
NextPage ==
    \/ \E q \in PageParams : SearchRequest(q)
    \/ \E d \in LongSearchData : SearchResponded(d)
    \/ ObjectFetched(FirstPending, "ok")
    \/ Translated(FirstPending, "ok")
    \/ SearchJoin

SpecPage == Init /\ [][NextPage]_vars

----------------------------------------------------------------------------
(* Properties *)

SearchDone == route = "search" /\ pc = "done"

\* The search call answered with a non-empty id list.
SearchHasIds == route = "search" /\ data.kind = "array" /\ Len(data.objectIDs) > 0

Rendered == response.status = 200 /\ response.kind = "render" /\ response.view = "results"

Shown(id) == \E k \in 1..Len(response.items) : response.items[k].objectID = id

\* Promise i fetched its object and every translation it asked for succeeded.
Succeeded(i) == promises[i].fetch = "ok" /\ promises[i].failed = {}

\* The object of id as it is rendered when every translation succeeds.
TranslatedObject(id) ==
    LET o == ObjOf(id)
    IN  [objectID |-> id,
         title |-> IF o.title = "" THEN "" ELSE Es(o.title),
         culture |-> IF o.culture = "" THEN "" ELSE Es(o.culture),
         dynasty |-> IF o.dynasty = "" THEN "" ELSE Es(o.dynasty),
         primaryImage |-> o.primaryImage]

HasPrimaryImage(id) == ObjOf(id).primaryImage # ""

\* Every id of the slice that succeeded and has a primaryImage is rendered.
OthersShown ==
    \A j \in 1..Len(promises) :
        Succeeded(j) /\ HasPrimaryImage(promises[j].id) => Shown(promises[j].id)

\* C1: in /search, when the object of an id of the slice was fetched and one of
\* its translate calls failed, the request is not failed and the object is
\* still rendered (if it has a primaryImage) with the failed field holding its
\* untranslated source text.
C1_TranslateFailureKeepsSource ==
    SearchDone /\ SearchHasIds =>
        \A i \in 1..Len(promises) :
            promises[i].fetch = "ok" /\ promises[i].failed # {} =>
                /\ Rendered
                /\ HasPrimaryImage(promises[i].id) =>
                      \E k \in 1..Len(response.items) :
                          /\ response.items[k].objectID = promises[i].id
                          /\ \A f \in promises[i].failed :
                                response.items[k][f] = ObjOf(promises[i].id)[f]

C3_NotFoundIsDropped ==
    SearchDone /\ (\E i \in 1..Len(promises) : promises[i].fetch = "notFound") =>
        /\ Rendered
        /\ \A i \in 1..Len(promises) :
              promises[i].fetch = "notFound" => ~Shown(promises[i].id)
        /\ OthersShown

C3_Witness ==
    /\ SearchDone
    /\ Len(promises) > 1
    /\ Cardinality({i \in 1..Len(promises) : promises[i].fetch = "notFound"}) = 1
    /\ \E j \in 1..Len(promises) : Succeeded(j) /\ Shown(promises[j].id)

\* C4: /results, the upstream answering every call, renders the page of the ids
\* at positions [(page-1)*10, (page-1)*10+10) with currentPage = page; it does
\* not end in HTTP 500.
C4_ResultsRendersPage ==
    route = "results" /\ pc = "done" =>
        /\ response.status # 500
        /\ response.kind = "render"
        /\ response.currentPage = page

\* The ids of the slice that have a primaryImage, in the order of the slice.
WithImage(ids) == SelectSeq(ids, HasPrimaryImage)

\* C5: in /search, when every fetch and translation of the slice succeeded, the
\* rendered objects are exactly the objects of the slice that have a
\* primaryImage, in the order of their ids in the upstream list, whatever the
\* order in which the fetches and translations completed.
C5_OrderPreserved ==
    SearchDone /\ SearchHasIds /\ (\A i \in 1..Len(promises) : Succeeded(i)) =>
        /\ Rendered
        /\ response.items =
              [k \in 1..Len(WithImage(objectIDs)) |-> TranslatedObject(WithImage(objectIDs)[k])]

C5_Witness ==
    /\ SearchDone /\ SearchHasIds
    /\ \A i \in 1..Len(promises) : Succeeded(i)
    /\ Len(response.items) > 1
    /\ response.items[1].objectID > response.items[2].objectID
    /\ Len(response.items) < Len(promises)

\* The ids at positions [off, off + 20) of s; positions outside s contribute nothing.
PositionsFrom(s, off) ==
    LET lo == IF off < 0 THEN 0 ELSE off
        hi == IF off + 20 > Len(s) THEN Len(s) ELSE off + 20
    IN  IF hi <= lo THEN <<>> ELSE SubSeq(s, lo + 1, hi)

\* C6: in /search, for every page (zero and negative included) and every
\* non-empty upstream id list, the details fetched are exactly those of the ids
\* at positions [(page-1)*20, (page-1)*20 + 20) of the list, and the rendered
\* totalPages is ceil(total / 20).
C6_SliceByOffset ==
    SearchHasIds /\ pc \in {"awaitAll", "done"} =>
        /\ fetchCalls = PositionsFrom(data.objectIDs, (page - 1) * 20)
        /\ pc = "done" =>
              \E n \in 0..(MaxPageIds + 1) :
                  /\ response.totalPages = n
                  /\ 20 * n >= TotalOf(data)
                  /\ 20 * (n - 1) < TotalOf(data)

\* C7: in /search, whenever the search call succeeds and reports no ids
\* (objectIDs missing, not an array, or empty), a page with zero objects,
\* totalPages 0 and a non-empty message is rendered, and no object fetch and no
\* translate call is ever issued.
C7_EmptySearchShortCircuits ==
    /\ route = "search"
    /\ listResult = "resolved"
    /\ data.kind \in {"nodata", "missing", "notArray"} \/ data.objectIDs = <<>>
    => /\ pc = "done"
       /\ Rendered
       /\ nResponses = 1
       /\ response.items = <<>>
       /\ response.totalPages = 0
       /\ response.message # ""
       /\ fetchCalls = <<>>
       /\ translateCalls = 0

C7_Witness ==
    /\ SearchDone
    /\ listResult = "resolved"
    /\ data.kind = "array" /\ data.objectIDs = <<>>

\* C8: in /, for every upstream department list, the rendered list has the same
\* length and order, each entry keeps its departmentId, and a department whose
\* translate call failed is rendered with its upstream displayName; a failed
\* translation never makes the request a 500.
C8_DepartmentsFallBack ==
    route = "home" /\ listResult = "resolved" /\ data.kind = "departments" =>
        /\ response.status # 500
        /\ pc = "done" =>
              /\ response.status = 200 /\ response.kind = "render" /\ response.view = "index"
              /\ Len(response.items) = Len(data.departments)
              /\ \A i \in 1..Len(data.departments) :
                    /\ response.items[i].departmentId = data.departments[i].departmentId
                    /\ promises[i].failed =>
                          response.items[i].displayName = data.departments[i].displayName

C8_Witness ==
    /\ route = "home" /\ pc = "done" /\ data.kind = "departments"
    /\ Len(data.departments) > 1
    /\ data.departments[1].departmentId > data.departments[2].departmentId
    /\ \E i \in 1..Len(promises) : promises[i].failed
    /\ \E i \in 1..Len(promises) : ~promises[i].failed

\* C9: in / and /search, if the list / search call fails, the request ends with
\* exactly one response, HTTP 500 with a non-empty plain-text message; the call
\* is not retried, no template is rendered, and no object fetch or translate
\* call is issued.
C9_ListFailureIs500 ==
    route \in {"home", "search"} /\ listResult = "rejected" =>
        /\ pc = "done"
        /\ nResponses = 1
        /\ response.status = 500
        /\ response.kind = "send"
        /\ response.message # ""
        /\ listCalls = 1
        /\ fetchCalls = <<>>
        /\ translateCalls = 0

C9_Witness == route = "search" /\ listResult = "rejected" /\ pc = "done"

\* C10: /object/:id/additional-images, when the object fetch succeeds, answers
\* a JSON array: [] when additionalImages is absent or empty, the object's
\* additionalImages otherwise; no translate call and no further upstream call.
C10_AdditionalImages ==
    route = "images" /\ pc = "done" /\ data.kind = "object" =>
        /\ response.status = 200 /\ response.kind = "json"
        /\ nResponses = 1
        /\ ~data.hasImages => response.items = <<>>
        /\ data.hasImages => response.items = data.additionalImages
        /\ translateCalls = 0
        /\ listCalls = 0
        /\ Len(fetchCalls) = 1

C10_Witness ==
    /\ route = "images" /\ pc = "done" /\ data.kind = "object"
    /\ data.hasImages /\ Len(data.additionalImages) = 1

====
